---- MODULE Spec2Model ----
(***************************************************************************)
(* Investment simulator (src/app.js): the financial core                   *)
(* (calculateNetAnnualReturn, calculateMonthlyRate, generateMonthlySeries) *)
(* and the page's event handlers (submit, clear, previous/next page).      *)
(*                                                                         *)
(* Every JavaScript Number of the program is an IEEE-754 binary floating   *)
(* point value.  The model keeps that arithmetic: a value is NaN, an       *)
(* infinity or m * 2^e with a bounded significand, every operation rounds  *)
(* its exact result to nearest (ties to even), results too large become    *)
(* Infinity and results too small lose bits gradually and then become 0.   *)
(* binary64 has 53 significand bits and exponents -1022..1023; the model   *)
(* has Prec bits and exponents -EMin..EMax-1, which are its bounds.        *)
(***************************************************************************)
EXTENDS Integers, Sequences, FiniteSets, TLC

\* ------------------------------------------------------------------------
\* Bounds of the number format.
Prec == 8
EMax == 24
EMin == 40

\* ------------------------------------------------------------------------
\* Integer helpers.
Abs(n) == IF n < 0 THEN 0 - n ELSE n

Max(a, b) == IF a >= b THEN a ELSE b

Min(a, b) == IF a <= b THEN a ELSE b

Sign(n) == IF n < 0 THEN 0 - 1 ELSE 1

RECURSIVE BitLen(_)
BitLen(n) ==
  IF n >= 65536 THEN 16 + BitLen(n \div 65536)
  ELSE IF n >= 256 THEN 8 + BitLen(n \div 256)
  ELSE IF n >= 16 THEN 4 + BitLen(n \div 16)
  ELSE IF n >= 4 THEN 2 + BitLen(n \div 4)
  ELSE IF n >= 2 THEN 2
  ELSE n

\* ------------------------------------------------------------------------
\* Numbers.  A finite number is m * 2^e; m = 0 has e = 0; otherwise either
\* 2^(p-1) <= |m| < 2^p (normal) or e is the format's least exponent
\* (subnormal), so that equal numbers are equal records.  The model has one
\* zero: JavaScript's -0 and +0 compare equal in every test the program makes.
NaN == [k |-> "nan", m |-> 0, e |-> 0]

Inf(s) == [k |-> "inf", m |-> s, e |-> 0]

Fin(m, e) == [k |-> "fin", m |-> m, e |-> e]

Zero == Fin(0, 0)

\* A format: p significand bits, least exponent qexp of a significand's last
\* bit, finite values below 2^emax.
DFmt == [p |-> Prec, qexp |-> 0 - EMin - (Prec - 1), emax |-> EMax]

\* The format of the intermediate results used to enclose Math.pow: more
\* bits, no exponent limit that the model's values can reach.
WFmt == [p |-> Prec + 6, qexp |-> 0 - 100000, emax |-> 100000]

\* The rounding of a magnitude to a format's grid, in steps.  mode is
\* "near" (ties to even), "trunc" (toward zero) or "away".

\* rem against half a unit of the last place: -1, 0 or 1.
HalfCmp(rem, half) ==
  IF rem > half THEN 1 ELSE IF rem = half THEN 0 ELSE 0 - 1

\* The significand q1 at exponent Et, after a carry out of p bits.
Carry(fmt, q1, Et) ==
  IF q1 = 0 THEN <<0, 0>>
  ELSE IF q1 = 2^fmt.p THEN <<2^(fmt.p - 1), Et + 1>>
  ELSE <<q1, Et>>

\* The quotient q at exponent Et, rounded up or not by what was cut off.
RoundCut(fmt, mode, q, cmpHalf, sticky, inexact, Et) ==
  Carry(fmt,
        IF CASE mode = "near" -> \/ cmpHalf = 1
                                 \/ cmpHalf = 0 /\ (sticky \/ q % 2 = 1)
             [] mode = "trunc" -> FALSE
             [] OTHER -> inexact
          THEN q + 1 ELSE q,
        Et)

\* M * 2^E cut at exponent Et, L the bit length of M.
RoundAt(fmt, mode, M, E, sticky, L, Et) ==
  IF Et <= E
    THEN IF M = 0 THEN <<0, 0>> ELSE <<M * 2^(E - Et), Et>>
  ELSE IF Et - E > L
    THEN RoundCut(fmt, mode, 0, 0 - 1, sticky, M # 0 \/ sticky, Et)
  ELSE RoundCut(fmt, mode, M \div 2^(Et - E),
                HalfCmp(M % 2^(Et - E), 2^(Et - E - 1)), sticky,
                M % 2^(Et - E) # 0 \/ sticky, Et)

\* The magnitude (M + f) * 2^E, with 0 < f < 1 when sticky and f = 0
\* otherwise, rounded to the format's grid: <<significand, exponent>>.
\* With sticky, M has more than p bits (every caller keeps guard bits).
RoundMag(fmt, mode, M, E, sticky) ==
  RoundAt(fmt, mode, M, E, sticky, BitLen(M),
          Max(E + BitLen(M) - fmt.p, fmt.qexp))

\* The largest finite magnitude of a format.
MaxFinite(fmt) == <<2^fmt.p - 1, fmt.emax - fmt.p>>

\* The sign s and the rounded magnitude r as a Number: overflow gives
\* Infinity, or the largest finite number when mode is "trunc".
Pack(fmt, mode, s, r) ==
  IF r[1] # 0 /\ BitLen(r[1]) + r[2] > fmt.emax
    THEN IF mode = "trunc"
           THEN Fin(s * MaxFinite(fmt)[1], MaxFinite(fmt)[2])
           ELSE Inf(s)
    ELSE IF r[1] = 0 THEN Zero ELSE Fin(s * r[1], r[2])

\* The mode that rounds a magnitude of sign s in direction dir: "near",
\* "down" (toward -Infinity) or "up" (toward +Infinity).
Mode(dir, s) ==
  CASE dir = "near" -> "near"
    [] dir = "down" -> IF s > 0 THEN "trunc" ELSE "away"
    [] OTHER -> IF s > 0 THEN "away" ELSE "trunc"

\* s * (M + f) * 2^E rounded in direction dir.
Round(fmt, dir, s, M, E, sticky) ==
  Pack(fmt, Mode(dir, s), s, RoundMag(fmt, Mode(dir, s), M, E, sticky))

IsNaN(x) == x.k = "nan"

IsInf(x) == x.k = "inf"

\* Number.isFinite
IsFinite(x) == x.k = "fin"

IsZero(x) == x.k = "fin" /\ x.m = 0

\* The sign of a number that is not NaN: -1, 0 or 1.
Sgn(x) == IF x.m < 0 THEN 0 - 1 ELSE IF x.m > 0 THEN 1 ELSE 0

\* Position of the leading bit of a nonzero finite number: floor(log2 |x|).
Top(x) == BitLen(Abs(x.m)) - 1 + x.e

\* Comparison of two finite numbers: -1, 0 or 1.
CmpFin(a, b) ==
  IF Sgn(a) # Sgn(b) THEN (IF Sgn(a) < Sgn(b) THEN 0 - 1 ELSE 1)
  ELSE IF Sgn(a) = 0 THEN 0
  ELSE IF Top(a) # Top(b)
         THEN (IF Top(a) < Top(b) THEN 0 - Sgn(a) ELSE Sgn(a))
  ELSE LET lo == Min(a.e, b.e)
           ma == a.m * 2^(a.e - lo)
           mb == b.m * 2^(b.e - lo)
       IN IF ma < mb THEN 0 - 1 ELSE IF ma > mb THEN 1 ELSE 0

\* Comparison of two numbers neither of which is NaN.
Cmp(a, b) ==
  IF IsInf(a) \/ IsInf(b)
    THEN LET ra == IF IsInf(a) THEN 2 * a.m ELSE Sgn(a)
             rb == IF IsInf(b) THEN 2 * b.m ELSE Sgn(b)
         IN IF ra < rb THEN 0 - 1 ELSE IF ra > rb THEN 1 ELSE 0
    ELSE CmpFin(a, b)

\* JavaScript's ===, <, <=, > on Numbers: every comparison with NaN is false.
FEq(a, b) == ~IsNaN(a) /\ ~IsNaN(b) /\ Cmp(a, b) = 0

FLt(a, b) == ~IsNaN(a) /\ ~IsNaN(b) /\ Cmp(a, b) < 0

FLe(a, b) == ~IsNaN(a) /\ ~IsNaN(b) /\ Cmp(a, b) <= 0

FGt(a, b) == FLt(b, a)

\* Unary minus and Math.abs.
FNeg(x) == IF IsNaN(x) THEN NaN ELSE [x EXCEPT !.m = 0 - x.m]

FAbs(x) == IF IsNaN(x) THEN NaN ELSE [x EXCEPT !.m = Abs(x.m)]

\* a + b for finite a, b in format fmt and direction dir.
AddFin(fmt, dir, a, b) ==
  IF a.m = 0 THEN b
  ELSE IF b.m = 0 THEN a
  ELSE LET hi == IF a.e >= b.e THEN a ELSE b
           lo == IF a.e >= b.e THEN b ELSE a
           d == hi.e - lo.e
       IN IF d > fmt.p + 2
            THEN \* lo is below a quarter of hi's last place: two guard bits
                 \* and a sticky bit carry all that rounding needs of it
                 LET M == IF Sgn(hi) = Sgn(lo) THEN 4 * Abs(hi.m)
                                                ELSE 4 * Abs(hi.m) - 1
                 IN Round(fmt, dir, Sgn(hi), M, hi.e - 2, TRUE)
            ELSE LET sum == hi.m * 2^d + lo.m
                 IN Round(fmt, dir, Sign(sum), Abs(sum), lo.e, FALSE)

MulFin(fmt, dir, a, b) ==
  IF a.m = 0 \/ b.m = 0 THEN Zero
  ELSE Round(fmt, dir, Sgn(a) * Sgn(b), Abs(a.m) * Abs(b.m), a.e + b.e,
             FALSE)

\* a / b for finite a and finite b # 0: the quotient to p + 2 bits or more
\* and the remainder as the sticky bit.
DivFin(fmt, dir, a, b) ==
  IF a.m = 0 THEN Zero
  ELSE LET la == BitLen(Abs(a.m))
           lb == BitLen(Abs(b.m))
           sc == fmt.p + 3 + lb - la
           num == Abs(a.m) * 2^sc
           q == num \div Abs(b.m)
           rem == num % Abs(b.m)
       IN Round(fmt, dir, Sgn(a) * Sgn(b), q, a.e - b.e - sc, rem # 0)

\* JavaScript's +, -, *, / on Numbers.
FAdd(a, b) ==
  IF IsNaN(a) \/ IsNaN(b) THEN NaN
  ELSE IF IsInf(a) /\ IsInf(b) THEN (IF a.m = b.m THEN a ELSE NaN)
  ELSE IF IsInf(a) THEN a
  ELSE IF IsInf(b) THEN b
  ELSE AddFin(DFmt, "near", a, b)

FSub(a, b) == FAdd(a, FNeg(b))

FMul(a, b) ==
  IF IsNaN(a) \/ IsNaN(b) THEN NaN
  ELSE IF IsInf(a) \/ IsInf(b)
         THEN (IF IsZero(a) \/ IsZero(b) THEN NaN
               ELSE Inf((IF IsInf(a) THEN a.m ELSE Sgn(a))
                        * (IF IsInf(b) THEN b.m ELSE Sgn(b))))
  ELSE MulFin(DFmt, "near", a, b)

FDiv(a, b) ==
  IF IsNaN(a) \/ IsNaN(b) THEN NaN
  ELSE IF IsInf(a) THEN (IF IsInf(b) THEN NaN
                         ELSE Inf(a.m * (IF Sgn(b) < 0 THEN 0 - 1 ELSE 1)))
  ELSE IF IsInf(b) THEN Zero
  ELSE IF IsZero(b) THEN (IF IsZero(a) THEN NaN ELSE Inf(Sgn(a)))
  ELSE DivFin(DFmt, "near", a, b)

\* The Number a numeric literal or Number(string) denotes: the decimal
\* n / d rounded once.
Num(n, d) ==
  IF n = 0 THEN Zero
  ELSE LET sc == Max(0, DFmt.p + 3 + BitLen(d) - BitLen(Abs(n)))
           num == Abs(n) * 2^sc
       IN Round(DFmt, "near", Sign(n), num \div d, 0 - sc, num % d # 0)

IntNum(n) == Num(n, 1)

One == IntNum(1)

\* The integer a finite integer-valued Number holds.
IntOf(x) == IF x.e >= 0 THEN x.m * 2^x.e ELSE x.m \div 2^(0 - x.e)

\* Math.round: the integer nearest x, halves toward +Infinity.
MathRound(x) ==
  IF ~IsFinite(x) \/ x.e >= 0 THEN x
  ELSE IF 0 - x.e > DFmt.p + 1 THEN Zero
  ELSE IntNum((2 * x.m + 2^(0 - x.e)) \div 2^(1 - x.e))

\* ------------------------------------------------------------------------
\* Math.pow.  ECMAScript leaves its result implementation-approximated; the
\* model takes it as faithfully rounded: one of the two Numbers that enclose
\* the real power (that power itself when it is a Number), the choice left
\* to the caller as d in {"down", "up"}.  The real power is enclosed by
\* products rounded down and up in WFmt.  The exponent is the rational
\* a / b with a >= 0 and b >= 1.

\* x^n for finite x > 0 and n >= 1, every product rounded in direction dir.
RECURSIVE PowDir(_, _, _)
\* x^n from h = x^(n \div 2).
PowStep(dir, x, n, h) ==
  IF h.m = 0 THEN Zero
  ELSE IF n % 2 = 1 THEN MulFin(WFmt, dir, MulFin(WFmt, dir, h, h), x)
  ELSE MulFin(WFmt, dir, h, h)

PowDir(dir, x, n) ==
  IF n = 1 THEN x ELSE PowStep(dir, x, n, PowDir(dir, x, n \div 2))

\* The largest significand m in lo..hi-1 with ok(m), where ok(lo), ~ok(hi)
\* and ok is monotone.
RECURSIVE BisectLast(_, _, _)
BisectLast(ok(_), lo, hi) ==
  IF hi - lo <= 1 THEN lo
  ELSE LET mid == (lo + hi) \div 2
       IN IF ok(mid) THEN BisectLast(ok, mid, hi) ELSE BisectLast(ok, lo, mid)

\* The largest Number z with z^b <= t, for a finite t > 0 and b >= 2.
RootDown(t, b) ==
  LET F == Top(t) \div b
      ez == F - (DFmt.p - 1)
      ok(m) == CmpFin(PowDir("up", Fin(m, ez), b), t) <= 0
      m0 == BisectLast(ok, 2^(DFmt.p - 1), 2^DFmt.p)
  IN IF F >= DFmt.emax
       THEN Fin(MaxFinite(DFmt)[1], MaxFinite(DFmt)[2])
       ELSE Fin(m0, ez)

\* The smallest Number z with z^b >= t, for a finite t > 0 and b >= 2.
RootUp(t, b) ==
  LET F == Top(t) \div b
      ez == F - (DFmt.p - 1)
      below(m) == CmpFin(PowDir("down", Fin(m, ez), b), t) < 0
  IN IF F >= DFmt.emax THEN Inf(1)
     ELSE IF below(2^(DFmt.p - 1))
       THEN Pack(DFmt, "away", 1,
                 Carry(DFmt, BisectLast(below, 2^(DFmt.p - 1), 2^DFmt.p) + 1,
                       ez))
     ELSE Fin(2^(DFmt.p - 1), ez)

\* x^(a/b) for finite x > 0, a >= 1, b >= 1.
\* The b-th root of t > 0 in direction d; t itself, rounded, for b = 1.
RootDir(t, b, d) ==
  IF t.m = 0 THEN Zero
  ELSE IF b = 1 THEN Round(DFmt, d, 1, t.m, t.e, FALSE)
  ELSE IF d = "down" THEN RootDown(t, b) ELSE RootUp(t, b)

PowPos(x, a, b, d) == RootDir(PowDir(d, x, a), b, d)

Flip(d) == IF d = "down" THEN "up" ELSE "down"

RECURSIVE GCD(_, _)
GCD(a, b) == IF b = 0 THEN a ELSE GCD(b, a % b)

MathPow(x, a, b, d) ==
  LET n == a \div GCD(a, b)
      r == b \div GCD(a, b)
  IN IF a = 0 THEN One
     ELSE IF IsNaN(x) THEN NaN
     ELSE IF IsInf(x)
            THEN (IF x.m < 0 /\ r = 1 /\ n % 2 = 1 THEN x ELSE Inf(1))
     ELSE IF IsZero(x) THEN Zero
     ELSE IF Sgn(x) > 0 THEN PowPos(x, n, r, d)
     ELSE IF r # 1 THEN NaN
     ELSE IF n % 2 = 1 THEN FNeg(PowPos(FNeg(x), n, r, Flip(d)))
     ELSE PowPos(FNeg(x), n, r, d)

\* ------------------------------------------------------------------------
\* The financial core (src/app.js, lines 1-106).

\* The direction of each Math.pow call of one generateMonthlySeries run.
Dirs == {"down", "up"}

PowChoices == [rate : Dirs, growth : Dirs, inflation : Dirs]

calculateNetAnnualReturn(grossAnnualRate, annualFeeRate) ==
  LET grossFactor == FAdd(One, FDiv(grossAnnualRate, IntNum(100)))
      feeFactor == FSub(One, FDiv(annualFeeRate, IntNum(100)))
  IN FSub(FMul(grossFactor, feeFactor), One)

\* calculateMonthlyRate without its test of the base (lines 22-24).
calculateMonthlyRateUnguarded(netAnnualRate, d) ==
  FSub(MathPow(FAdd(One, netAnnualRate), 1, 12, d), One)

calculateMonthlyRate(netAnnualRate, d) ==
  LET base == FAdd(One, netAnnualRate)
  IN IF FLe(base, Zero)
       THEN FNeg(One)
       ELSE FSub(MathPow(base, 1, 12, d), One)

\* Math.floor in the place of the Math.round of line 52.
TotalMonthsFloor(years) == IntNum(IntOf(FMul(years, IntNum(12))))

\* Math.round(years * 12)
TotalMonths(years) == MathRound(FMul(years, IntNum(12)))

\* The entry's interest taken against the total contributed before this
\* month's contribution.
SeriesPushOldContributed(st, balance, totalContributed) ==
  [month |-> st.month + 1,
   balance |-> balance,
   totalContributed |-> totalContributed,
   series |-> Append(st.series,
                     [month |-> st.month,
                      totalContributed |-> totalContributed,
                      interestAccumulated |->
                        FSub(balance, st.totalContributed),
                      totalValue |-> balance])]

\* One pass through the body of the for loop (lines 59-74) and its
\* month += 1: st holds the loop's variables month, balance,
\* totalContributed and series.  month counts in integers (a binary64
\* counter is exact far beyond the 600 months the page allows).
\* SeriesPush is lines 67-74 for the new balance and totalContributed.
SeriesPush(st, balance, totalContributed) ==
  [month |-> st.month + 1,
   balance |-> balance,
   totalContributed |-> totalContributed,
   series |-> Append(st.series,
                     [month |-> st.month,
                      totalContributed |-> totalContributed,
                      interestAccumulated |-> FSub(balance, totalContributed),
                      totalValue |-> balance])]

\* The pass of an annuity due: the contribution is added before the month's
\* growth and earns interest in its own month.
SeriesStepDue(st, monthlyRate, monthlyContribution) ==
  [month |-> st.month + 1,
   balance |-> FMul(FAdd(st.balance, monthlyContribution),
                    FAdd(One, monthlyRate)),
   totalContributed |-> FAdd(st.totalContributed, monthlyContribution),
   series |-> Append(st.series,
                     [month |-> st.month,
                      totalContributed |->
                        FAdd(st.totalContributed, monthlyContribution),
                      interestAccumulated |->
                        FSub(FMul(FAdd(st.balance, monthlyContribution),
                                  FAdd(One, monthlyRate)),
                             FAdd(st.totalContributed, monthlyContribution)),
                      totalValue |-> FMul(FAdd(st.balance,
                                               monthlyContribution),
                                          FAdd(One, monthlyRate))])]

SeriesStep(st, monthlyRate, monthlyContribution) ==
  SeriesPush(st,
             FAdd(IF ~FEq(monthlyRate, Zero)
                    THEN FMul(st.balance, FAdd(One, monthlyRate))
                    ELSE st.balance,
                  monthlyContribution),
             FAdd(st.totalContributed, monthlyContribution))

\* The for loop (line 58), from the state st on: the passes for the months
\* st.month .. last, in their order.  The passes are evaluated as a first
\* half followed by the rest, so that the evaluation nests to the logarithm
\* of their number.
RECURSIVE SeriesLoop(_, _, _, _)
SeriesLoop(st, last, monthlyRate, monthlyContribution) ==
  IF st.month > last THEN st
  ELSE IF st.month = last
    THEN SeriesStep(st, monthlyRate, monthlyContribution)
  ELSE SeriesLoop(SeriesLoop(st, (st.month + last) \div 2,
                             monthlyRate, monthlyContribution),
                  last, monthlyRate, monthlyContribution)

\* The literal 1e-12 (line 79): 1152921.50... * 2^-60, rounded once.
NearZero == Round(DFmt, "near", 1, 1152921, 0 - 60, TRUE)

\* The exponent years of line 91 as the fraction <<a, b>> it is exactly
\* (a finite years >= 0).
YearsFraction(years) ==
  IF years.e >= 0 THEN <<years.m * 2^years.e, 1>>
  ELSE <<years.m, 2^(0 - years.e)>>

\* Math.pow(1 + annualInflation / 100, years)  (line 91)
InflationFactor(annualInflation, years, d) ==
  MathPow(FAdd(One, FDiv(annualInflation, IntNum(100))),
          YearsFraction(years)[1], YearsFraction(years)[2], d)

\* futureValueFormula without its branch for a rate near zero.
FutureValueFormulaNoZeroCase(initialCapital, monthlyContribution, monthlyRate, totalMonths, growthFactor) ==
  FAdd(FMul(initialCapital, growthFactor),
       FMul(monthlyContribution,
            FDiv(FSub(growthFactor, One), monthlyRate)))

\* futureValueFormula (lines 79-81)
FutureValueFormula(initialCapital, monthlyContribution, monthlyRate, totalMonths, growthFactor) ==
  IF FLt(FAbs(monthlyRate), NearZero)
    THEN FAdd(initialCapital, FMul(monthlyContribution, totalMonths))
    ELSE FAdd(FMul(initialCapital, growthFactor),
              FMul(monthlyContribution,
                   FDiv(FSub(growthFactor, One), monthlyRate)))

\* totalContributions without the initial capital.
TotalContributionsNoCapital(initialCapital, monthlyContribution, totalMonths) ==
  FMul(monthlyContribution, totalMonths)

\* totalContributions (line 89)
TotalContributions(initialCapital, monthlyContribution, totalMonths) ==
  FAdd(initialCapital, FMul(monthlyContribution, totalMonths))

\* rest, once first has its value: an operator's argument is evaluated
\* where it is first used, and Then fixes the order of two statements.
Then(first, rest) == IF first = first THEN rest ELSE rest

\* futureValue (lines 83-87)
FutureValue(initialCapital, series, futureValueFormula) ==
  IF IsFinite(futureValueFormula) THEN futureValueFormula
  ELSE IF Len(series) > 0 THEN series[Len(series)].totalValue
  ELSE initialCapital

\* The real value multiplied by the inflation factor instead of divided.
FutureValueRealTimes(futureValue, inflationFactor) ==
  IF ~FEq(inflationFactor, Zero)
    THEN FMul(futureValue, inflationFactor)
    ELSE futureValue

\* futureValueReal (line 92)
FutureValueReal(futureValue, inflationFactor) ==
  IF ~FEq(inflationFactor, Zero)
    THEN FDiv(futureValue, inflationFactor)
    ELSE futureValue

\* Lines 90 and 94-105.
SeriesResult(netAnnualRate, monthlyRate, totalMonths, series, futureValue, totalContributions, inflationFactor) ==
  [series |-> series,
   summary |-> [netAnnualRate |-> netAnnualRate,
                monthlyRate |-> monthlyRate,
                totalMonths |-> totalMonths,
                futureValue |-> futureValue,
                futureValueReal |->
                  FutureValueReal(futureValue, inflationFactor),
                totalContributed |-> totalContributions,
                totalGrowth |-> FSub(futureValue, totalContributions)]]

\* Lines 78-91, for the series of the loop.
SeriesSummary(params, d, netAnnualRate, monthlyRate, totalMonths, series) ==
  SeriesResult(
    netAnnualRate, monthlyRate, totalMonths, series,
    FutureValue(
      params.initialCapital, series,
      FutureValueFormula(
        params.initialCapital, params.monthlyContribution, monthlyRate,
        totalMonths,
        MathPow(FAdd(One, monthlyRate), IntOf(totalMonths), 1, d.growth))),
    TotalContributions(params.initialCapital, params.monthlyContribution,
                       totalMonths),
    InflationFactor(params.annualInflation, params.years, d.inflation))

\* Lines 54-75, for the rates and the number of months.
SeriesAtRate(params, d, netAnnualRate, monthlyRate, totalMonths) ==
  Then(monthlyRate,
       SeriesSummary(params, d, netAnnualRate, monthlyRate, totalMonths,
                     SeriesLoop([month |-> 1,
                                 balance |-> params.initialCapital,
                                 totalContributed |-> params.initialCapital,
                                 series |-> <<>>],
                                IntOf(totalMonths), monthlyRate,
                                params.monthlyContribution).series))

\* Lines 51-52, for the net annual rate of line 50.
SeriesAtNetRate(params, d, netAnnualRate) ==
  SeriesAtRate(params, d, netAnnualRate,
               calculateMonthlyRate(netAnnualRate, d.rate),
               TotalMonths(params.years))

\* generateMonthlySeries(params), in the order of its statements, each
\* step handing on what it computed; d gives the direction of each of the
\* three Math.pow calls.  years is finite and >= 0.
generateMonthlySeries(params, d) ==
  SeriesAtNetRate(params, d,
                  calculateNetAnnualReturn(params.grossAnnualReturn,
                                           params.annualFee))

\* ------------------------------------------------------------------------
\* The page (src/app.js, lines 108-470).  The theme switch, saveParameters
\* and handleExport write none of the variables below and are left out.

\* state.rowsPerPage
RowsPerPage == 50

VARIABLES
  mathPow,           \* the direction this engine's Math.pow rounds in, at
                     \* each of the three calls
  params,            \* the argument of a direct call of generateMonthlySeries
  result,            \* the values such calls returned, <<>> before the call
  computed,          \* generateMonthlySeries(v) on this engine, for the form
                     \* values v that validateInputs accepts
  chartAvailable,    \* typeof Chart !== 'undefined'
  series,            \* state.series
  currentPage,       \* state.currentPage
  chartInstance,     \* state.chartInstance
  kpi,               \* the textContent of the four KPI elements
  tableBody,         \* the rows of #table-body
  prevPageDisabled,  \* prevPageButton.disabled
  nextPageDisabled,  \* nextPageButton.disabled
  exportDisabled,    \* exportButton.disabled
  pageInfo,          \* "Pagina c / t" as <<c, t>>
  shownErrors,       \* the fields whose .error element has a message
  lastEvent          \* history: the handler that ran last, the calls of
                     \* generateMonthlySeries it made, the page it started on

coreVars == <<mathPow, params, result>>

pageVars == <<computed, chartAvailable, series, currentPage, chartInstance,
              kpi, tableBody, prevPageDisabled, nextPageDisabled,
              exportDisabled, pageInfo, shownErrors, lastEvent>>

vars == <<coreVars, pageVars>>

\* Number(text) for the text of a form field: the decimal n / d, and NaN
\* for a text that is no number (written with d = 0).
Number(text) == IF text.d = 0 THEN NaN ELSE Num(text.n, text.d)

parseFormValues(form) ==
  [initialCapital |-> Number(form.initialCapital),
   monthlyContribution |-> Number(form.monthlyContribution),
   grossAnnualReturn |-> Number(form.grossReturn),
   annualFee |-> Number(form.annualFee),
   annualInflation |-> Number(form.inflation),
   years |-> Number(form.years)]

\* Number.isInteger
IsInteger(x) ==
  /\ IsFinite(x)
  /\ \/ x.e >= 0
     \/ x.m = 0
     \/ 0 - x.e < DFmt.p /\ x.m % 2^(0 - x.e) = 0

\* validateInputs: the keys of the errors object.
validateInputs(values) ==
  {k \in {"initialCapital", "monthlyContribution", "grossReturn",
          "annualFee", "inflation", "years"} :
     \/ k = "initialCapital"
          /\ (~IsFinite(values.initialCapital)
                \/ FLt(values.initialCapital, Zero))
     \/ k = "monthlyContribution"
          /\ (~IsFinite(values.monthlyContribution)
                \/ FLt(values.monthlyContribution, Zero))
     \/ k = "grossReturn" /\ ~IsFinite(values.grossAnnualReturn)
     \/ k = "annualFee"
          /\ (~IsFinite(values.annualFee) \/ FLt(values.annualFee, Zero))
     \/ k = "inflation"
          /\ (~IsFinite(values.annualInflation)
                \/ FLt(values.annualInflation, Zero))
     \/ k = "years"
          /\ (~IsFinite(values.years) \/ FLt(values.years, One)
                \/ FGt(values.years, IntNum(50)) \/ ~IsInteger(values.years))}

\* What '—' looks like in a KPI or a cell.
Dash == [text |-> "dash", cents |-> 0]

\* formatCurrency: '—' for a value that is not finite, else the amount
\* with two decimals, halves away from zero (the euro sign and the
\* separators carry nothing more).
formatCurrency(value) ==
  IF ~IsFinite(value) THEN Dash
  ELSE LET h == 100 * Abs(value.m)
           cents == IF value.e >= 0 THEN h * 2^value.e
                    ELSE IF 0 - value.e > 24 THEN 0
                    ELSE (h + 2^(0 - value.e - 1)) \div 2^(0 - value.e)
       IN [text |-> "eur", cents |-> Sgn(value) * cents]

\* The four texts updateKpis writes.
updateKpis(summary) ==
  kpi' = [nominal |-> formatCurrency(summary.futureValue),
          real |-> formatCurrency(summary.futureValueReal),
          contributed |-> formatCurrency(summary.totalContributed),
          growth |-> formatCurrency(summary.totalGrowth)]

\* createChart: nothing without Chart.js; else the old chart is destroyed
\* and a new one drawn.
createChart ==
  chartInstance' = IF chartAvailable THEN "chart" ELSE chartInstance

\* The row renderTable appends for a series entry (lines 305-325).
TableRow(item) ==
  [month |-> item.month,
   contributed |-> formatCurrency(item.totalContributed),
   interest |-> formatCurrency(item.interestAccumulated),
   value |-> formatCurrency(item.totalValue)]

\* Math.ceil(a / b) for a >= 0, b > 0
Ceil(a, b) == (a + b - 1) \div b

\* renderTable without the clamp of line 295.
renderTableUnclamped(page, s) ==
  LET totalPages == Max(1, Ceil(Len(s), RowsPerPage))
      start == (page - 1) * RowsPerPage
      end == start + RowsPerPage
      pageItems == SubSeq(s, Max(start, 0) + 1, Min(Max(end, 0), Len(s)))
  IN /\ currentPage' = page
     /\ tableBody' = [i \in 1..Len(pageItems) |-> TableRow(pageItems[i])]
     /\ prevPageDisabled' = (page = 1)
     /\ nextPageDisabled' = (page = totalPages \/ Len(s) = 0)
     /\ pageInfo' = IF Len(s) > 0 THEN <<page, totalPages>> ELSE <<0, 0>>

\* renderTable(page), reading state.series as s.
renderTable(page, s) ==
  LET totalPages == Max(1, Ceil(Len(s), RowsPerPage))
      page1 == Min(Max(page, 1), totalPages)
      start == (page1 - 1) * RowsPerPage
      end == start + RowsPerPage
      pageItems == SubSeq(s, start + 1, Min(end, Len(s)))
  IN /\ currentPage' = page1
     /\ tableBody' = [i \in 1..Len(pageItems) |-> TableRow(pageItems[i])]
     /\ prevPageDisabled' = (page1 = 1)
     /\ nextPageDisabled' = (page1 = totalPages \/ Len(s) = 0)
     /\ pageInfo' = IF Len(s) > 0 THEN <<page1, totalPages>> ELSE <<0, 0>>

\* clearResults without the reset of state.series (line 358).
clearResultsKeepSeries ==
  /\ series' = series
  /\ currentPage' = 1
  /\ tableBody' = <<>>
  /\ kpi' = [nominal |-> Dash, real |-> Dash, contributed |-> Dash,
             growth |-> Dash]
  /\ pageInfo' = <<0, 0>>
  /\ prevPageDisabled' = TRUE
  /\ nextPageDisabled' = TRUE
  /\ exportDisabled' = TRUE
  /\ chartInstance' = "null"

clearResults ==
  /\ series' = <<>>
  /\ currentPage' = 1
  /\ tableBody' = <<>>
  /\ kpi' = [nominal |-> Dash, real |-> Dash, contributed |-> Dash,
             growth |-> Dash]
  /\ pageInfo' = <<0, 0>>
  /\ prevPageDisabled' = TRUE
  /\ nextPageDisabled' = TRUE
  /\ exportDisabled' = TRUE
  /\ chartInstance' = "null"

\* The texts the model types into the form.
Text(n, d) == [n |-> n, d |-> d]

ValidForm ==
  [initialCapital |-> Text(1000, 1), monthlyContribution |-> Text(100, 1),
   grossReturn |-> Text(5, 1), annualFee |-> Text(0, 1),
   inflation |-> Text(0, 1), years |-> Text(1, 1)]

FormTexts ==
  {[ValidForm EXCEPT !.years = y] :
     y \in {Text(5, 1), Text(9, 1), Text(0, 1), Text(51, 1), Text(3, 2),
            Text(0 - 1, 1), Text(0, 0)}}
  \cup {[ValidForm EXCEPT ![f] = t] :
          f \in {"initialCapital", "monthlyContribution", "grossReturn",
                 "annualFee", "inflation"},
          t \in {Text(0 - 1, 1), Text(0, 0)}}
  \cup {[ValidForm EXCEPT !.initialCapital = Text(0 - 1, 1),
                          !.years = Text(0, 1)],
        [ValidForm EXCEPT !.grossReturn = Text(0, 0),
                          !.inflation = Text(0 - 1, 1),
                          !.years = Text(9, 1)]}

AcceptedValues ==
  {v \in {parseFormValues(form) : form \in FormTexts} :
     validateInputs(v) = {}}

Event(handler, coreCalls) ==
  [handler |-> handler, coreCalls |-> coreCalls, page |-> currentPage]

\* handleFormSubmit, the form holding any of FormTexts.
handleFormSubmit ==
  /\ \E form \in FormTexts :
       LET values == parseFormValues(form)
           errors == validateInputs(values)
       IN IF errors # {}
            THEN /\ shownErrors' = errors
                 /\ clearResults
                 /\ lastEvent' = Event("submit", 0)
            ELSE /\ shownErrors' = {}
                 /\ series' = computed[values].series
                 /\ updateKpis(computed[values].summary)
                 /\ renderTable(1, computed[values].series)
                 /\ createChart
                 /\ exportDisabled' = FALSE
                 /\ lastEvent' = Event("submit", 1)
  /\ UNCHANGED <<coreVars, computed, chartAvailable>>

handleClear ==
  /\ shownErrors' = {}
  /\ clearResults
  /\ lastEvent' = Event("clear", 0)
  /\ UNCHANGED <<coreVars, computed, chartAvailable>>

\* The click listener of prevPageButton (lines 453-455).
prevPageClick ==
  /\ renderTable(currentPage - 1, series)
  /\ lastEvent' = Event("prev", 0)
  /\ UNCHANGED <<coreVars, computed, chartAvailable, series, chartInstance,
                 kpi, exportDisabled, shownErrors>>

\* The click listener of nextPageButton (lines 457-459).
nextPageClick ==
  /\ renderTable(currentPage + 1, series)
  /\ lastEvent' = Event("next", 0)
  /\ UNCHANGED <<coreVars, computed, chartAvailable, series, chartInstance,
                 kpi, exportDisabled, shownErrors>>

\* The page as loaded.  index.html is not among the sources: its table
\* body is taken empty and its KPI and page texts as clearResults writes
\* them; whether it disables the three buttons is left open.
PageLoaded ==
  /\ chartAvailable \in BOOLEAN
  /\ series = <<>>
  /\ currentPage = 1
  /\ chartInstance = "null"
  /\ kpi = [nominal |-> Dash, real |-> Dash, contributed |-> Dash,
            growth |-> Dash]
  /\ tableBody = <<>>
  /\ pageInfo = <<0, 0>>
  /\ prevPageDisabled \in BOOLEAN
  /\ nextPageDisabled \in BOOLEAN
  /\ exportDisabled \in BOOLEAN
  /\ shownErrors = {}
  /\ lastEvent = [handler |-> "load", coreCalls |-> 0, page |-> 1]

Init ==
  /\ mathPow \in PowChoices
  /\ params = <<>>
  /\ result = <<>>
  /\ computed = [v \in AcceptedValues |-> generateMonthlySeries(v, mathPow)]
  /\ PageLoaded

Next ==
  \/ handleFormSubmit
  \/ handleClear
  \/ prevPageClick
  \/ nextPageClick

Spec == Init /\ [][Next]_vars

\* ------------------------------------------------------------------------
\* generateMonthlySeries called directly, as runQuickTests calls it
\* (lines 473-546), the page idle.

Input(initialCapital, monthlyContribution, grossAnnualReturn, annualFee, annualInflation, years) ==
  [initialCapital |-> initialCapital,
   monthlyContribution |-> monthlyContribution,
   grossAnnualReturn |-> grossAnnualReturn,
   annualFee |-> annualFee,
   annualInflation |-> annualInflation,
   years |-> years]

\* The largest finite Number.
MaxNumber == Fin(MaxFinite(DFmt)[1], MaxFinite(DFmt)[2])

\* The arguments of the calls: finite, none negative but the gross return.
\* A grid of ordinary values, then the cases at the edges: fees, a loss of
\* all or nearly all the capital, sums that are exact, a growth factor that
\* underflows, a contributed total that overflows, an inflation too small
\* to move 1, and whole and fractional durations up to 30 years.
CoreInputs ==
  {Input(IntNum(P), C, IntNum(g), Zero, IntNum(i), y) :
     P \in {0, 1000}, C \in {Zero, Num(1, 10), IntNum(100)},
     g \in {0 - 100, 0, 5}, i \in {0, 2},
     y \in {Zero, Num(1, 8), One, IntNum(2)}}
  \cup {Input(IntNum(1000), IntNum(100), IntNum(5), f, IntNum(2), One) :
          f \in {One, IntNum(100)}}
  \cup {Input(IntNum(1000), C, g, Zero, IntNum(2), One) :
          C \in {Zero, Num(1, 10)},
          g \in {IntNum(0 - 150), Num(0 - 199, 2)}}
  \cup {Input(Zero, IntNum(200), IntNum(6), Zero, Zero, One)}
  \cup {Input(IntNum(64), IntNum(8), g, Zero, IntNum(2), y) :
          g \in {Zero, IntNum(5)}, y \in {One, IntNum(2)}}
  \cup {Input(Fin(2^(Prec - 1), EMax - Prec), Zero, Num(0 - 199, 2), Zero,
               Zero, IntNum(7))}
  \cup {Input(MaxNumber, Fin(2^(Prec - 1), EMax - 2 * Prec - 1), Zero, Zero,
               Zero, One)}
  \cup {Input(IntNum(1000), IntNum(100), IntNum(5), Zero, Num(1, 1000), One)}
  \cup {Input(IntNum(1000), IntNum(50), IntNum(5), Num(1, 2), IntNum(2), y) :
          y \in {Num(1, 2), Num(3, 2), IntNum(30)}}

PageIdle ==
  /\ computed = <<>>
  /\ chartAvailable = FALSE
  /\ series = <<>>
  /\ currentPage = 1
  /\ chartInstance = "null"
  /\ kpi = [nominal |-> Dash, real |-> Dash, contributed |-> Dash,
            growth |-> Dash]
  /\ tableBody = <<>>
  /\ pageInfo = <<0, 0>>
  /\ prevPageDisabled = TRUE
  /\ nextPageDisabled = TRUE
  /\ exportDisabled = TRUE
  /\ shownErrors = {}
  /\ lastEvent = [handler |-> "load", coreCalls |-> 0, page |-> 1]

CoreInit ==
  /\ mathPow \in PowChoices
  /\ params \in CoreInputs
  /\ result = <<>>
  /\ PageIdle

\* One call of generateMonthlySeries(params).
Generate ==
  /\ result = <<>>
  /\ result' = <<generateMonthlySeries(params, mathPow)>>
  /\ UNCHANGED <<mathPow, params, pageVars>>

CoreNext == Generate

CoreSpec == CoreInit /\ [][CoreNext]_vars

\* ------------------------------------------------------------------------
\* Properties of a direct call (CoreSpec).  The call has returned when
\* result holds its value.

Called == result # <<>>

\* The sum a + b of two finite Numbers is itself a Number: rounding it down
\* and rounding it up give the same.
ExactAdd(a, b) ==
  /\ IsFinite(a)
  /\ IsFinite(b)
  /\ AddFin(DFmt, "down", a, b) = AddFin(DFmt, "up", a, b)

\* Likewise the product a * b.
ExactMul(a, b) ==
  /\ IsFinite(a)
  /\ IsFinite(b)
  /\ MulFin(DFmt, "down", a, b) = MulFin(DFmt, "up", a, b)

\* m * x for an integer m >= 0 and a finite x, rounded in direction dir:
\* the count m is exact, as a month number is in binary64.
TimesDir(dir, m, x) ==
  Round(DFmt, dir, Sgn(x), m * Abs(x.m), x.e, FALSE)

Times(m, x) == TimesDir("near", m, x)

ExactTimes(m, x) == TimesDir("down", m, x) = TimesDir("up", m, x)

\* The balance and the total contributed before month m.
BalanceBefore(m) ==
  IF m = 1 THEN params.initialCapital
  ELSE result[1].series[m - 1].totalValue

ContributedBefore(m) ==
  IF m = 1 THEN params.initialCapital
  ELSE result[1].series[m - 1].totalContributed

\* Every addition of the running total of contributions, up to month m,
\* was exact.
RunningTotalExact(m) ==
  \A j \in 1..m : ExactAdd(ContributedBefore(j), params.monthlyContribution)

\* totalContributed + interestAccumulated = totalValue as real numbers.
SumIsExact(e) ==
  /\ ExactAdd(e.totalContributed, e.interestAccumulated)
  /\ FAdd(e.totalContributed, e.interestAccumulated) = e.totalValue

\* C1, as amended: interestAccumulated of every entry is
\* totalValue - totalContributed rounded to a Number, so
\* totalValue = totalContributed + interestAccumulated holds exactly for
\* just the entries whose difference is itself a Number.
C1_InterestIsRoundedDifference ==
  Called =>
    \A k \in 1..Len(result[1].series) :
      LET e == result[1].series[k]
      IN /\ e.interestAccumulated = FSub(e.totalValue, e.totalContributed)
         /\ SumIsExact(e)
              <=> ExactAdd(e.totalValue, FNeg(e.totalContributed))

\* C1, as stated: totalValue = totalContributed + interestAccumulated
\* exactly, for every input and every entry.
C1_SumAlwaysExact ==
  Called => \A k \in 1..Len(result[1].series) : SumIsExact(result[1].series[k])

\* C1: a call has returned an entry with interest in it whose three fields
\* add up exactly.
C1_Witness ==
  /\ Called
  /\ \E k \in 1..Len(result[1].series) :
       /\ ~IsZero(result[1].series[k].interestAccumulated)
       /\ ~IsZero(result[1].series[k].totalContributed)
       /\ SumIsExact(result[1].series[k])

\* monthlyRate is not near zero (the threshold of line 79), there is at
\* least one month, and neither initialCapital nor monthlyContribution is
\* negative.
NonDegenerate ==
  /\ IsFinite(result[1].summary.monthlyRate)
  /\ ~FLt(FAbs(result[1].summary.monthlyRate), NearZero)
  /\ Len(result[1].series) >= 1
  /\ FLe(Zero, params.initialCapital)
  /\ FLe(Zero, params.monthlyContribution)

\* C2, in what any relative tolerance below 1 demands: for a non-degenerate
\* input the closed-form futureValue and the last entry's totalValue are
\* both zero or both not.
C2_ClosedFormMatchesSeries ==
  Called /\ NonDegenerate =>
    (IsZero(result[1].summary.futureValue)
       <=> IsZero(result[1].series[Len(result[1].series)].totalValue))

\* round(years * 12) in integers, for a finite years >= 0: halves go up.
ExpectedMonths(years) ==
  IF years.e >= 0 THEN 12 * years.m * 2^years.e
  ELSE (24 * years.m + 2^(0 - years.e)) \div 2^(1 - years.e)

\* C3: the series has round(years * 12) entries, as many as
\* summary.totalMonths says, the entry at position k has month = k, a year
\* gives 12 entries, 30 years give 360, and no months give the empty series.
C3_EntriesPerMonth ==
  Called =>
    /\ Len(result[1].series) = ExpectedMonths(params.years)
    /\ result[1].summary.totalMonths = IntNum(Len(result[1].series))
    /\ \A k \in 1..Len(result[1].series) : result[1].series[k].month = k
    /\ params.years = One => Len(result[1].series) = 12
    /\ params.years = IntNum(30) => Len(result[1].series) = 360
    /\ IntOf(result[1].summary.totalMonths) = 0 => result[1].series = <<>>

\* C3: a call for 30 years has returned 360 entries.
C3_Witness ==
  /\ Called
  /\ params.years = IntNum(30)
  /\ Len(result[1].series) = 360
  /\ result[1].series[360].month = 360

\* initialCapital + monthlyContribution * totalMonths, as line 89 and the
\* zero-rate branch of line 80 compute it.
ContributionSum ==
  FAdd(params.initialCapital,
       FMul(params.monthlyContribution, result[1].summary.totalMonths))

\* C4, as amended: when monthlyRate is exactly 0, summary.futureValue is
\* initialCapital + monthlyContribution * totalMonths whenever that sum is
\* finite; when the sum overflows, futureValue is the last entry's
\* totalValue (initialCapital when there is no entry).
C4_ZeroRateSum ==
  Called /\ IsZero(result[1].summary.monthlyRate) =>
    result[1].summary.futureValue =
      IF IsFinite(ContributionSum) THEN ContributionSum
      ELSE IF Len(result[1].series) > 0
        THEN result[1].series[Len(result[1].series)].totalValue
      ELSE params.initialCapital

\* C4, as stated: when monthlyRate is exactly 0, summary.futureValue is
\* initialCapital + monthlyContribution * totalMonths, for every input.
C4_ZeroRateSumAlways ==
  Called /\ IsZero(result[1].summary.monthlyRate) =>
    result[1].summary.futureValue = ContributionSum

\* C4: the call for 1000, 100 a month, no return, 2 years has returned the
\* sum of the contributions.
C4_Witness ==
  /\ Called
  /\ params.initialCapital = IntNum(1000)
  /\ params.monthlyContribution = IntNum(100)
  /\ params.years = IntNum(2)
  /\ IsZero(result[1].summary.monthlyRate)
  /\ result[1].summary.futureValue
       = FAdd(IntNum(1000), FMul(IntNum(100), IntNum(24)))

\* A positive Number with a full significand (not subnormal).
IsNormalPositive(x) == IsFinite(x) /\ x.m >= 2^(DFmt.p - 1)

ContributionsExact ==
  /\ ExactMul(params.monthlyContribution, result[1].summary.totalMonths)
  /\ ExactAdd(params.initialCapital,
              FMul(params.monthlyContribution,
                   result[1].summary.totalMonths))
  /\ RunningTotalExact(Len(result[1].series))

\* C6, as amended: summary.totalContributed is
\* initialCapital + monthlyContribution * totalMonths whatever the rate,
\* and initialCapital when monthlyContribution = 0; the last entry's
\* totalContributed is the sum the loop ran, and the two are equal when
\* the product and every sum behind them were exact.
C6_TotalContributed ==
  Called =>
    /\ result[1].summary.totalContributed = ContributionSum
    /\ IsZero(params.monthlyContribution)
         => result[1].summary.totalContributed = params.initialCapital
    /\ \A m \in 1..Len(result[1].series) :
         result[1].series[m].totalContributed
           = FAdd(ContributedBefore(m), params.monthlyContribution)
    /\ Len(result[1].series) > 0 /\ ContributionsExact
         => result[1].series[Len(result[1].series)].totalContributed
              = result[1].summary.totalContributed

\* C6, as stated: summary.totalContributed is
\* initialCapital + monthlyContribution * totalMonths, it is the last
\* entry's totalContributed whenever there is an entry, and it is
\* initialCapital whenever monthlyContribution = 0.
C6_TotalIsLastEntry ==
  Called =>
    /\ result[1].summary.totalContributed = ContributionSum
    /\ IsZero(params.monthlyContribution)
         => result[1].summary.totalContributed = params.initialCapital
    /\ Len(result[1].series) > 0
         => result[1].series[Len(result[1].series)].totalContributed
              = result[1].summary.totalContributed

\* C6: a call with contributions, a rate and exact sums has returned equal
\* totals.
C6_Witness ==
  /\ Called
  /\ Len(result[1].series) > 0
  /\ ~IsZero(params.monthlyContribution)
  /\ ~IsZero(params.initialCapital)
  /\ ~IsZero(result[1].summary.monthlyRate)
  /\ ContributionsExact
  /\ result[1].series[Len(result[1].series)].totalContributed
       = result[1].summary.totalContributed

\* C7: when the net annual rate is <= -1 the monthly rate is exactly -1 and
\* every entry's totalValue is monthlyContribution; when the net annual
\* rate is > -1 the monthly rate is > -1.
C7_TotalLoss ==
  Called =>
    /\ FLe(result[1].summary.netAnnualRate, FNeg(One))
         => /\ result[1].summary.monthlyRate = FNeg(One)
            /\ \A k \in 1..Len(result[1].series) :
                 result[1].series[k].totalValue = params.monthlyContribution
    /\ FGt(result[1].summary.netAnnualRate, FNeg(One))
         => FGt(result[1].summary.monthlyRate, FNeg(One))

\* C7: a call with a loss of more than everything, a capital and a
\* contribution has returned entries.
C7_Witness ==
  /\ Called
  /\ FLt(result[1].summary.netAnnualRate, FNeg(One))
  /\ result[1].summary.monthlyRate = FNeg(One)
  /\ ~IsZero(params.initialCapital)
  /\ ~IsZero(params.monthlyContribution)
  /\ Len(result[1].series) >= 2
  /\ result[1].series[2].totalValue = params.monthlyContribution

\* The recurrence of an ordinary annuity at month m.
StepsFromBefore(m) ==
  /\ result[1].series[m].totalValue
       = FAdd(FMul(BalanceBefore(m),
                   FAdd(One, result[1].summary.monthlyRate)),
              params.monthlyContribution)
  /\ result[1].series[m].totalContributed
       = FAdd(ContributedBefore(m), params.monthlyContribution)

\* C9, as amended: entry m has
\* totalValue = balance_(m-1) * (1 + monthlyRate) + monthlyContribution and
\* totalContributed = totalContributed_(m-1) + monthlyContribution, which is
\* initialCapital + m * monthlyContribution when every sum so far, the
\* product and that sum are exact; the first entry of initialCapital = 0,
\* monthlyContribution = 200 has totalContributed = 200 and
\* totalValue = 200.
C9_OrdinaryAnnuity ==
  Called =>
    /\ \A m \in 1..Len(result[1].series) :
         /\ StepsFromBefore(m)
         /\ /\ RunningTotalExact(m)
            /\ ExactTimes(m, params.monthlyContribution)
            /\ ExactAdd(params.initialCapital,
                        Times(m, params.monthlyContribution))
            => result[1].series[m].totalContributed
                 = FAdd(params.initialCapital,
                        Times(m, params.monthlyContribution))
    /\ /\ IsZero(params.initialCapital)
       /\ params.monthlyContribution = IntNum(200)
       /\ Len(result[1].series) >= 1
       => /\ result[1].series[1].totalContributed = IntNum(200)
          /\ result[1].series[1].totalValue = IntNum(200)

\* C9, as stated: entry m has
\* totalValue = balance_(m-1) * (1 + monthlyRate) + monthlyContribution and
\* totalContributed = initialCapital + m * monthlyContribution.
C9_ContributedIsProduct ==
  Called =>
    \A m \in 1..Len(result[1].series) :
      /\ StepsFromBefore(m)
      /\ result[1].series[m].totalContributed
           = FAdd(params.initialCapital,
                  Times(m, params.monthlyContribution))

\* C9: the call for no capital and 200 a month at a rate has returned a
\* first entry of 200 and 200, and a second that grew.
C9_Witness ==
  /\ Called
  /\ IsZero(params.initialCapital)
  /\ params.monthlyContribution = IntNum(200)
  /\ FGt(result[1].summary.monthlyRate, Zero)
  /\ Len(result[1].series) >= 2
  /\ result[1].series[1].totalValue = IntNum(200)
  /\ FGt(result[1].series[2].totalValue, IntNum(400))

\* The last handler was a submit that validateInputs rejected.
RejectedSubmit == lastEvent.handler = "submit" /\ shownErrors # {}

\* C8: after a submit that validateInputs rejected, whatever came before
\* it, generateMonthlySeries was not called, state.series is empty,
\* state.currentPage is 1, the four KPIs show the dash, the table has no
\* row and the export button is disabled.
C8_RejectedSubmitLeavesNothing ==
  RejectedSubmit =>
    /\ lastEvent.coreCalls = 0
    /\ series = <<>>
    /\ currentPage = 1
    /\ \A k \in DOMAIN kpi : kpi[k] = Dash
    /\ tableBody = <<>>
    /\ exportDisabled

\* C8: a submit was rejected while the third page of an earlier
\* calculation was showing.
C8_Witness ==
  /\ RejectedSubmit
  /\ lastEvent.page = 3
  /\ series = <<>>
  /\ exportDisabled

\* Math.ceil(state.series.length / rowsPerPage), at least 1.
TotalPages == Max(1, Ceil(Len(series), RowsPerPage))

\* The rows of the entries (currentPage - 1) * rowsPerPage + 1 ..
\* min(currentPage * rowsPerPage, series.length).
RowsOfCurrentPage ==
  [i \in 1..Max(0, Min(currentPage * RowsPerPage, Len(series))
                     - (currentPage - 1) * RowsPerPage)
     |-> TableRow(series[(currentPage - 1) * RowsPerPage + i])]

\* C10: state.currentPage is always within
\* 1..max(1, ceil(series.length / rowsPerPage)); an accepted submit leaves
\* it at 1, a previous-page click one page down but not below 1, a
\* next-page click one page up but not above the last page; and the rows
\* shown are those of the entries of the current page.
C10_PageWithinRange ==
  /\ currentPage \in 1..TotalPages
  /\ lastEvent.handler = "submit" /\ lastEvent.coreCalls = 1
       => currentPage = 1
  /\ lastEvent.handler = "prev"
       => currentPage = Max(lastEvent.page - 1, 1)
  /\ lastEvent.handler = "next"
       => currentPage = Min(lastEvent.page + 1, TotalPages)
  /\ tableBody = RowsOfCurrentPage

\* C10: a next-page click on the last of three pages left the page there,
\* showing the last eight entries of 108.
C10_Witness ==
  /\ lastEvent.handler = "next"
  /\ lastEvent.page = 3
  /\ currentPage = 3
  /\ Len(series) = 108
  /\ Len(tableBody) = 8
  /\ tableBody[8].month = 108

====
